---- MODULE Spec2Model ----
(***************************************************************************)
(* The game engine of the asteroids game (src/submission/game.c) and the   *)
(* parts of src/submission/project.c it calls into, as a state machine.    *)
(* Every public engine function is one action; a caller may invoke them in *)
(* any order.                                                              *)
(***************************************************************************)
EXTENDS Integers, Sequences, FiniteSets, TLC

VARIABLES
    basePosition,           \* game.c:78
    projectiles,            \* game.c:79-80  live part projectiles[0..numProjectiles-1]
    asteroids,              \* game.c:81-82  live part asteroids[0..numAsteroids-1]
    lives,                  \* game.c:83
    score,                  \* score module, read by get_score()
    base_hit_sound,         \* project.c:54
    basehit_sequence,       \* project.c:56
    asteroid_animation_on,  \* project.c:61
    asteroid_sequence,      \* project.c:62
    animation_x,            \* project.c:59
    animation_y,            \* project.c:60
    op,                     \* the engine function called last
    ret,                    \* its return value (0 for a void function)
    hiAsteroids,            \* largest value numAsteroids took during that call
    hiProjectiles,          \* largest value numProjectiles took during that call
    events,                 \* what that call did to each asteroid and projectile, in order
    steps,                  \* engine calls made since the last new_game()
    capacity,               \* MAX_ASTEROIDS of this build (game.c:82)
    clock,                  \* get_current_time(): ms counted by the timer interrupt
    basehit_time,           \* project.c:57
    asteroid_animation_time,\* project.c:53
    pc,                     \* where main() is: the block of play_game that runs next
    current_time,           \* project.c:219, as read in line 362
    last_asteroid_time,     \* project.c:219
    last_move_time,         \* project.c:219
    last_base_move,         \* project.c:219
    axis,                   \* project.c:225
    tone,                   \* the alarm tone the last step played, 0 for none
    trigger_time,           \* the clock when the alarm was last triggered, -1 before
    inputs,                 \* button pushes and joystick deflections so far
    button,                 \* project.c:220, as assigned in line 292
    characters_into_escape_sequence,  \* project.c:222
    serial,                 \* the bytes the serial line delivers from now on
    pending                 \* how many of them were in the input buffer at the
                            \* last look (serial_input_available)

\* the variables of main() and play_game(), which the engine does not touch
\* what the input block of play_game keeps between two passes
polled == <<button, characters_into_escape_sequence, serial, pending>>

loopvars == <<clock, pc, current_time, last_asteroid_time, last_move_time,
              last_base_move, axis, tone, trigger_time, inputs, polled>>

vars == <<basePosition, projectiles, asteroids, lives, score,
          base_hit_sound, basehit_sequence, asteroid_animation_on,
          asteroid_sequence, animation_x, animation_y,
          op, ret, hiAsteroids, hiProjectiles, events, steps, capacity,
          basehit_time, asteroid_animation_time, loopvars>>

----------------------------------------------------------------------------
(* Bounds of the model *)

\* capacity of asteroids[] (MAX_ASTEROIDS of game.h), reduced for checking
MAX_ASTEROIDS == 5
\* capacity of projectiles[]
MAX_PROJECTILES == 2
\* engine calls explored per game
MaxSteps == 6
\* random() % FIELD_WIDTH is drawn from FirstRandomX .. FirstRandomX+NumRandomX-1
FirstRandomX == 2
NumRandomX == 3
\* advance_projectiles calls of an opening, which take a projectile fired in
\* row 2 to row 14
FlightCalls == 12
\* ms the clock advances between two looks at it
TickMs == 250
\* the clock stops here
MaxTime == 2500
\* button pushes and joystick deflections explored
MaxInputs == 1
\* the largest score a game is picked up at
TopScore == 278
\* a capacity of asteroids[] at which the top row can be full while an
\* asteroid is below it
ManyAsteroids == 9

(* Program constants *)
FIELD_WIDTH == 8
FIELD_HEIGHT == 16
INITIAL_LIVES == 4
INITIAL_BASE == 3
LAST_BASE == 7
FIRE_ROW == 2
TOP_ROW == 15
LOWEST_START_ROW == 3
ASTEROID_INTERVAL == 500
PROJECTILE_INTERVAL == 500
JOYSTICK_INTERVAL == 50
FRAME_INTERVAL == 10
NO_BUTTON_PUSHED == -1

MOVE_LEFT == "MOVE_LEFT"
MOVE_RIGHT == "MOVE_RIGHT"

\* project.c:50, the bytes being named rather than numbered
ESCAPE_CHAR == "ESC"

----------------------------------------------------------------------------
(* Positions: one uint8_t, x in the high nibble, y in the low nibble *)

U8(v) == v % 256

GAME_POSITION(x, y) == (x * 16) + (y % 16)
GET_X_POSITION(posn) == posn \div 16
GET_Y_POSITION(posn) == posn % 16

Max(a, b) == IF a >= b THEN a ELSE b
MinOf(S) == CHOOSE m \in S : \A n \in S : m <= n

----------------------------------------------------------------------------
(* The engine state as one record, threaded through the functions *)

Cur ==
    [basePosition |-> basePosition, projectiles |-> projectiles,
     asteroids |-> asteroids, lives |-> lives, score |-> score,
     base_hit_sound |-> base_hit_sound, basehit_sequence |-> basehit_sequence,
     asteroid_animation_on |-> asteroid_animation_on,
     asteroid_sequence |-> asteroid_sequence,
     animation_x |-> animation_x, animation_y |-> animation_y,
     ret |-> 0,
     hiAsteroids |-> Len(asteroids), hiProjectiles |-> Len(projectiles),
     events |-> <<>>,
     clock |-> clock, basehit_time |-> basehit_time,
     asteroid_animation_time |-> asteroid_animation_time,
     tone |-> 0, capacity |-> capacity]

\* one entry of the history of a call: what happened (kind) to the asteroid
\* or projectile that was in cell `from`, and the cell `to` it involves
note(s, kind, from, to) ==
    [s EXCEPT !.events = Append(@, [kind |-> kind, from |-> U8(from), to |-> U8(to)])]

numAsteroids(s) == Len(s.asteroids)
numProjectiles(s) == Len(s.projectiles)

\* game.c:434-445
asteroid_at(s, x, y) ==
    LET positionToCheck == U8(GAME_POSITION(U8(x), U8(y)))
        hits == {i \in 1..numAsteroids(s) : s.asteroids[i] = positionToCheck}
    IN  IF hits = {} THEN -1 ELSE MinOf(hits) - 1

\* projectile_at that compares the column only
projectile_at_any_row(s, x, y) ==
    LET hits == {i \in 1..numProjectiles(s) :
                    GET_X_POSITION(s.projectiles[i]) = U8(x)}
    IN  IF hits = {} THEN -1 ELSE MinOf(hits) - 1

\* game.c:450-461
projectile_at(s, x, y) ==
    LET positionToCheck == U8(GAME_POSITION(U8(x), U8(y)))
        hits == {i \in 1..numProjectiles(s) : s.projectiles[i] = positionToCheck}
    IN  IF hits = {} THEN -1 ELSE MinOf(hits) - 1

\* remove_asteroid without the numAsteroids-- of line 481
remove_asteroid_keeps_count(s, asteroidNumber) ==
    IF asteroidNumber < 0 \/ asteroidNumber >= numAsteroids(s)
    THEN s
    ELSE [s EXCEPT !.asteroids[asteroidNumber + 1] = s.asteroids[numAsteroids(s)]]

\* game.c:466-482: the last asteroid takes the freed slot
remove_asteroid(s, asteroidNumber) ==
    IF asteroidNumber < 0 \/ asteroidNumber >= numAsteroids(s)
    THEN s
    ELSE LET n == numAsteroids(s)
             moved == IF asteroidNumber < n - 1
                      THEN [s.asteroids EXCEPT ![asteroidNumber + 1] = s.asteroids[n]]
                      ELSE s.asteroids
         IN  [s EXCEPT !.asteroids = SubSeq(moved, 1, n - 1)]

\* game.c:486-502: the later projectiles move one slot down
remove_projectile(s, projectileNumber) ==
    IF projectileNumber < 0 \/ projectileNumber >= numProjectiles(s)
    THEN s
    ELSE LET n == numProjectiles(s)
         IN  [s EXCEPT !.projectiles =
                 [i \in 1..(n - 1) |->
                     IF i <= projectileNumber THEN s.projectiles[i]
                                              ELSE s.projectiles[i + 1]]]

\* numAsteroids++ ; asteroids[numAsteroids-1] = posn  (game.c:284-294, 384-385)
push_asteroid(s, posn) ==
    [s EXCEPT !.asteroids = Append(s.asteroids, U8(posn)),
              !.hiAsteroids = Max(s.hiAsteroids, numAsteroids(s) + 1)]

\* newProjectileNumber = numProjectiles++ ; projectiles[..] = posn (game.c:242-243)
push_projectile(s, posn) ==
    [s EXCEPT !.projectiles = Append(s.projectiles, U8(posn)),
              !.hiProjectiles = Max(s.hiProjectiles, numProjectiles(s) + 1)]

----------------------------------------------------------------------------
(* Collaborators in project.c and the score module *)

\* score module: add_to_score(value)
add_to_score(s, value) == [s EXCEPT !.score = s.score + value]

\* project.c:464-467
enable_basehit_sound(s) ==
    [s EXCEPT !.base_hit_sound = 1, !.basehit_sequence = 1]

\* enable_asteroid_animation without the test of line 510: a request always
\* starts the animation anew
enable_asteroid_animation_restarts(s, x, y) ==
    [s EXCEPT !.asteroid_animation_on = 1, !.asteroid_sequence = 1,
              !.asteroid_animation_time = s.clock,
              !.animation_x = x, !.animation_y = y]

\* project.c:508-519
enable_asteroid_animation(s, x, y) ==
    IF s.asteroid_animation_on = 0
    THEN [s EXCEPT !.asteroid_animation_on = 1, !.asteroid_sequence = 1,
                   !.asteroid_animation_time = s.clock,
                   !.animation_x = x, !.animation_y = y]
    ELSE s

----------------------------------------------------------------------------
(* random() % FIELD_WIDTH, within the bounds of the model *)
RandomXs ==
    {x \in 0..(FIELD_WIDTH - 1) :
        x >= FirstRandomX /\ x < FirstRandomX + NumRandomX}

\* FreeTopXs without the test of the do-while loops: any drawn column
FreeTopXs_unchecked(s) == RandomXs

\* the values on which the do-while loops of game.c:290-292 and 376-381 can
\* end: a drawn column whose top cell holds no asteroid (any free column of
\* the field when every column of RandomXs is taken)
FreeTopXs(s) ==
    LET drawn == {new_x \in RandomXs : asteroid_at(s, new_x, TOP_ROW) = -1}
    IN  IF drawn # {} THEN drawn
        ELSE {new_x \in 0..(FIELD_WIDTH - 1) : asteroid_at(s, new_x, TOP_ROW) = -1}

\* the do-while loop found every cell of the top row taken: it does not
\* end, and the call it is in does not return
spins(s) == note(s, "spins", TOP_ROW, TOP_ROW)

\* the call is in a loop that does not end
spinning(s) == s.events # <<>> /\ s.events[Len(s.events)].kind = "spins"

\* game.c:369-387, for each value the loop can end on
regen_asteroid(s) ==
    IF FreeTopXs(s) = {} THEN {spins(s)}
    ELSE {note(push_asteroid(s, GAME_POSITION(new_x, TOP_ROW)),
               "regen", GAME_POSITION(new_x, TOP_ROW), GAME_POSITION(new_x, TOP_ROW))
             : new_x \in FreeTopXs(s)}

\* the call of enable_asteroid_animation that follows regen_asteroid()
\* (game.c:267, 276, 346), reached when regen_asteroid returns
after_regen(t, x, y) ==
    IF spinning(t) THEN t ELSE enable_asteroid_animation(t, x, y)

----------------------------------------------------------------------------
(* The engine functions *)

\* place_asteroids with random() % FIELD_HEIGHT as the row of line 153
RECURSIVE place_asteroids_any_row(_, _)
place_asteroids_any_row(s, stream) ==
    IF numAsteroids(s) >= s.capacity \/ stream = <<>> THEN s
    ELSE LET x == U8(Head(stream)[1] % FIELD_WIDTH)
             y == U8(Head(stream)[2] % FIELD_HEIGHT)
         IN  IF asteroid_at(s, x, y) # -1
             THEN place_asteroids_any_row(s, Tail(stream))
             ELSE place_asteroids_any_row(push_asteroid(s, GAME_POSITION(x, y)),
                                          Tail(stream))

\* game.c:143-159: stream holds the pairs of values random() returns in
\* lines 149 and 153; a cell that already holds an asteroid is drawn again
\* (do-while, 146-154)
RECURSIVE place_asteroids(_, _)
place_asteroids(s, stream) ==
    IF numAsteroids(s) >= s.capacity \/ stream = <<>> THEN s
    ELSE LET x == U8(Head(stream)[1] % FIELD_WIDTH)
             y == U8(LOWEST_START_ROW
                        + (Head(stream)[2] % (FIELD_HEIGHT - LOWEST_START_ROW)))
         IN  IF asteroid_at(s, x, y) # -1
             THEN place_asteroids(s, Tail(stream))
             ELSE place_asteroids(push_asteroid(s, GAME_POSITION(x, y)), Tail(stream))

initialise_game(s, stream) ==
    place_asteroids([s EXCEPT !.basePosition = INITIAL_BASE,
                              !.projectiles = <<>>,
                              !.asteroids = <<>>,
                              !.lives = INITIAL_LIVES,
                              !.hiAsteroids = 0,
                              !.hiProjectiles = 0,
                              !.events = <<>>],
                    stream)

\* game.c:187-191 and its three siblings: one ram cell of a move
ram_cell(s, x, y) ==
    IF asteroid_at(s, x, y) # -1
    THEN LET hit == [enable_basehit_sound(s) EXCEPT !.lives = @ - 1]
         IN  note(remove_asteroid(hit, asteroid_at(hit, x, y)),
                  "rammed", GAME_POSITION(x, y), GAME_POSITION(x, y))
    ELSE s

\* move_base without the left-edge test of line 186
move_base_no_edge(s, direction) ==
    IF direction = MOVE_LEFT
    THEN LET s1 == ram_cell(s, s.basePosition - 2, 0)
             s2 == ram_cell(s1, s.basePosition - 1, 1)
         IN  [s2 EXCEPT !.basePosition = @ - 1, !.ret = 1]
    ELSE IF direction = MOVE_RIGHT /\ s.basePosition # LAST_BASE
    THEN LET s1 == ram_cell(s, s.basePosition + 2, 0)
             s2 == ram_cell(s1, s.basePosition + 1, 1)
         IN  [s2 EXCEPT !.basePosition = @ + 1, !.ret = 1]
    ELSE [s EXCEPT !.ret = 0]

\* move_base that looks at the row-0 ram cell only
move_base_one_ram_cell(s, direction) ==
    IF direction = MOVE_LEFT /\ s.basePosition # 0
    THEN [ram_cell(s, s.basePosition - 2, 0) EXCEPT !.basePosition = @ - 1, !.ret = 1]
    ELSE IF direction = MOVE_RIGHT /\ s.basePosition # LAST_BASE
    THEN [ram_cell(s, s.basePosition + 2, 0) EXCEPT !.basePosition = @ + 1, !.ret = 1]
    ELSE [s EXCEPT !.ret = 0]

\* game.c:170-220
move_base(s, direction) ==
    IF direction = MOVE_LEFT /\ s.basePosition # 0
    THEN LET s1 == ram_cell(s, s.basePosition - 2, 0)
             s2 == ram_cell(s1, s.basePosition - 1, 1)
         IN  [s2 EXCEPT !.basePosition = @ - 1, !.ret = 1]
    ELSE IF direction = MOVE_RIGHT /\ s.basePosition # LAST_BASE
    THEN LET s1 == ram_cell(s, s.basePosition + 2, 0)
             s2 == ram_cell(s1, s.basePosition + 1, 1)
         IN  [s2 EXCEPT !.basePosition = @ + 1, !.ret = 1]
    ELSE [s EXCEPT !.ret = 0]

\* the two branches of fire_projectile once the test of lines 229-230 passed
fire_accepted(s) ==
    IF asteroid_at(s, s.basePosition, FIRE_ROW) # -1
    THEN LET gone == remove_asteroid(s, asteroid_at(s, s.basePosition, FIRE_ROW))
         IN  {IF spinning(t) THEN t
              ELSE [enable_asteroid_animation(add_to_score(t, 1),
                                              s.basePosition, FIRE_ROW)
                        EXCEPT !.ret = 1] : t \in regen_asteroid(gone)}
    ELSE {[push_projectile(s, GAME_POSITION(s.basePosition, FIRE_ROW))
               EXCEPT !.ret = 1]}

\* fire_projectile without the projectile_at test of line 230
fire_projectile_any_cell(s) ==
    IF numProjectiles(s) < MAX_PROJECTILES
    THEN fire_accepted(s)
    ELSE {[s EXCEPT !.ret = 0]}

\* fire_projectile with <= for < in line 229
fire_projectile_over_capacity(s) ==
    IF numProjectiles(s) <= MAX_PROJECTILES
          /\ projectile_at(s, s.basePosition, FIRE_ROW) = -1
    THEN fire_accepted(s)
    ELSE {[s EXCEPT !.ret = 0]}

\* fire_projectile that also launches the projectile when it hits an asteroid
fire_projectile_also_shoots(s) ==
    IF numProjectiles(s) < MAX_PROJECTILES
          /\ projectile_at(s, s.basePosition, FIRE_ROW) = -1
    THEN {[push_projectile(t, GAME_POSITION(s.basePosition, FIRE_ROW))
               EXCEPT !.ret = 1] : t \in fire_accepted(s)}
    ELSE {[s EXCEPT !.ret = 0]}

\* game.c:227-250, one result for each column regen_asteroid can draw
fire_projectile(s) ==
    IF numProjectiles(s) < MAX_PROJECTILES
          /\ projectile_at(s, s.basePosition, FIRE_ROW) = -1
    THEN fire_accepted(s)
    ELSE {[s EXCEPT !.ret = 0]}

\* base_collision without the last clause of line 277: an asteroid coming
\* down on the right wing of the base is let through
base_collision_no_right_wing(s, x, y) ==
    \/ (s.basePosition = x /\ y = 2)
    \/ (s.basePosition = x + 1 /\ y = 1)

\* base_collision with the first clause of line 277 only
base_collision_centre_only(s, x, y) == s.basePosition = x /\ y = 2

\* game.c:277: the asteroid at (x,y) is about to enter the base
base_collision(s, x, y) ==
    \/ (s.basePosition = x /\ y = 2)
    \/ (s.basePosition = x + 1 /\ y = 1)
    \/ (s.basePosition = x - 1 /\ y = 1)

\* game.c:284-295: numAsteroids++ first, so the search of the top row also
\* reads the slot being filled, which still holds what `last` left there
move_asteroid(s, x, y, last) ==
    IF y # 0
    THEN {note(push_asteroid(s, GAME_POSITION(x, y - 1)),
               "moved", GAME_POSITION(x, y), GAME_POSITION(x, y - 1))}
    ELSE LET grown == push_asteroid(s, last)
         IN  IF FreeTopXs(grown) = {} THEN {spins(grown)}
             ELSE {note([grown EXCEPT !.asteroids[numAsteroids(grown)] =
                                          U8(GAME_POSITION(new_x, TOP_ROW))],
                        "wrapped", GAME_POSITION(x, y), GAME_POSITION(new_x, TOP_ROW))
                      : new_x \in FreeTopXs(grown)}

\* advance_cell without the test of line 270 for a projectile in the cell
\* below the asteroid
advance_cell_same_cell_only(s, x, y) ==
    IF asteroid_at(s, x, y) = -1 THEN {s}
    ELSE
      LET last == s.asteroids[numAsteroids(s)]
          r == remove_asteroid(s, asteroid_at(s, x, y))
      IN  IF projectile_at(r, x, y) # -1
          THEN {after_regen(t, x, y) :
                  t \in regen_asteroid(
                          note(add_to_score(remove_projectile(r, projectile_at(r, x, y)), 1),
                               "shot", GAME_POSITION(x, y), GAME_POSITION(x, y)))}
          ELSE IF base_collision(r, x, y)
          THEN regen_asteroid(
                   note(enable_basehit_sound([r EXCEPT !.lives = @ - 1]),
                        "base_hit", GAME_POSITION(x, y), GAME_POSITION(x, y)))
          ELSE move_asteroid(r, x, y, last)

\* game.c:257-300: the body of the scan for one cell
advance_cell(s, x, y) ==
    IF asteroid_at(s, x, y) = -1 THEN {s}
    ELSE
      LET last == s.asteroids[numAsteroids(s)]
          r == remove_asteroid(s, asteroid_at(s, x, y))
      IN  IF projectile_at(r, x, y) # -1
          THEN {after_regen(t, x, y) :
                  t \in regen_asteroid(
                          note(add_to_score(remove_projectile(r, projectile_at(r, x, y)), 1),
                               "shot", GAME_POSITION(x, y), GAME_POSITION(x, y)))}
          ELSE IF projectile_at(r, x, y - 1) # -1
          THEN {after_regen(t, x, y - 1) :
                  t \in regen_asteroid(
                          note(add_to_score(remove_projectile(r, projectile_at(r, x, y - 1)), 1),
                               "shot", GAME_POSITION(x, y), GAME_POSITION(x, y - 1)))}
          ELSE IF base_collision(r, x, y)
          THEN regen_asteroid(
                   note(enable_basehit_sound([r EXCEPT !.lives = @ - 1]),
                        "base_hit", GAME_POSITION(x, y), GAME_POSITION(x, y)))
          ELSE move_asteroid(r, x, y, last)

\* game.c:255-257: the cells are numbered in scan order, x outer, y inner,
\* which is the number GAME_POSITION gives the cell; the cells from `cell` on
\* that pass the test of line 257 are those some asteroids[i] names
occupied_from(s, cell) ==
    {s.asteroids[i] : i \in 1..numAsteroids(s)}
        \cap (cell..(FIELD_WIDTH * FIELD_HEIGHT - 1))

\* game.c:255-303: the scan from `cell` on; a cell without an asteroid is
\* passed over, so the scan goes straight to the next cell that holds one
RECURSIVE scan_from(_, _)
scan_from(s, cell) ==
    IF spinning(s) \/ occupied_from(s, cell) = {} THEN {s}
    ELSE LET c == MinOf(occupied_from(s, cell))
         IN  UNION {scan_from(t, c + 1) :
                       t \in advance_cell(s, c \div FIELD_HEIGHT, c % FIELD_HEIGHT)}

\* game.c:254-304
advance_asteroids(s) == scan_from(s, 0)

\* one pass of the loop that, after a removal, goes on to the next index
\* all the same
advance_projectile_skips(s, projectileNumber) ==
    LET was == s.projectiles[projectileNumber + 1]
        x == GET_X_POSITION(was)
        y == U8(GET_Y_POSITION(was) + 1)
    IN  IF y = FIELD_HEIGHT
        THEN {<<note(remove_projectile(s, projectileNumber), "off_top", was, was),
                projectileNumber + 1>>}
        ELSE IF asteroid_at(s, x, y) # -1
        THEN LET p == remove_projectile(s, projectileNumber)
                 a == note(add_to_score(remove_asteroid(p, asteroid_at(p, x, y)), 1),
                           "hit", was, GAME_POSITION(x, y))
             IN  {<<after_regen(t, x, y), projectileNumber + 1>>
                     : t \in regen_asteroid(a)}
        ELSE {<<note([s EXCEPT !.projectiles[projectileNumber + 1] =
                                   U8(GAME_POSITION(x, y))],
                     "flew", was, GAME_POSITION(x, y)),
                projectileNumber + 1>>}

\* one pass of the loop that looks for an asteroid in the cell of the
\* projectile before it looks at the row
advance_projectile_hits_first(s, projectileNumber) ==
    LET was == s.projectiles[projectileNumber + 1]
        x == GET_X_POSITION(was)
        y == U8(GET_Y_POSITION(was) + 1)
    IN  IF asteroid_at(s, x, y - 1) # -1 \/ (y # FIELD_HEIGHT /\ asteroid_at(s, x, y) # -1)
        THEN LET p == remove_projectile(s, projectileNumber)
                 at == IF asteroid_at(s, x, y - 1) # -1 THEN y - 1 ELSE y
                 a == note(add_to_score(remove_asteroid(p, asteroid_at(p, x, at)), 1),
                           "hit", was, GAME_POSITION(x, at))
             IN  {<<after_regen(t, x, at), projectileNumber>>
                     : t \in regen_asteroid(a)}
        ELSE IF y = FIELD_HEIGHT
        THEN {<<note(remove_projectile(s, projectileNumber), "off_top", was, was),
                projectileNumber>>}
        ELSE {<<note([s EXCEPT !.projectiles[projectileNumber + 1] =
                                   U8(GAME_POSITION(x, y))],
                     "flew", was, GAME_POSITION(x, y)),
                projectileNumber + 1>>}

\* game.c:314-365: one pass of the loop, for the projectile in slot
\* projectileNumber; gives the state and the projectileNumber of the next pass
advance_projectile(s, projectileNumber) ==
    LET was == s.projectiles[projectileNumber + 1]
        x == GET_X_POSITION(was)
        y == U8(GET_Y_POSITION(was) + 1)
    IN  IF y = FIELD_HEIGHT
        THEN {<<note(remove_projectile(s, projectileNumber), "off_top", was, was),
                projectileNumber>>}
        ELSE IF asteroid_at(s, x, y) # -1
        THEN LET p == remove_projectile(s, projectileNumber)
                 a == note(add_to_score(remove_asteroid(p, asteroid_at(p, x, y)), 1),
                           "hit", was, GAME_POSITION(x, y))
             IN  {<<after_regen(t, x, y), projectileNumber>>
                     : t \in regen_asteroid(a)}
        ELSE {<<note([s EXCEPT !.projectiles[projectileNumber + 1] =
                                   U8(GAME_POSITION(x, y))],
                     "flew", was, GAME_POSITION(x, y)),
                projectileNumber + 1>>}

\* game.c:313-366: the loop from projectileNumber on
RECURSIVE projectiles_from(_, _)
projectiles_from(s, projectileNumber) ==
    IF spinning(s) \/ projectileNumber >= numProjectiles(s) THEN {s}
    ELSE UNION {projectiles_from(r[1], r[2]) : r \in advance_projectile(s, projectileNumber)}

\* game.c:308-367
advance_projectiles(s) == projectiles_from(s, 0)

\* is_game_over with < 0 for < 1 in line 422
is_game_over_below_zero(s) == IF s.lives < 0 THEN 1 ELSE 0

\* game.c:421-426
is_game_over(s) == IF s.lives < 1 THEN 1 ELSE 0

\* project.c:188-214
new_game(s, stream) ==
    [initialise_game(s, stream) EXCEPT !.score = 0,
                                       !.basehit_sequence = 1,
                                       !.basehit_time = s.clock,
                                       !.animation_x = 0,
                                       !.animation_y = 0,
                                       !.asteroid_animation_on = 0,
                                       !.asteroid_sequence = 1]

----------------------------------------------------------------------------
(* The state machine *)

\* the values of random() in initialise_game (game.c:149 and 153) that are
\* explored, as pairs; the first stream gives the cells (3,3) (3,4) (3,5)
\* (1,4) (2,5), the second (4,3) (2,3) (3,15) (5,3) (2,15)
RandomCellStreams ==
    { << <<3, 0>>, <<11, 1>>, <<3, 15>>, <<1, 14>>, <<2, 2>>, <<3, 1>>,
         <<3, 3>>, <<4, 4>>, <<5, 5>> >>,
      << <<4, 13>>, <<2, 0>>, <<3, 12>>, <<5, 26>>, <<3, 25>>, <<10, 12>>,
         <<4, 12>>, <<6, 0>>, <<3, 6>> >> }

\* the globals as the C runtime zeroes them, before main() runs
Boot ==
    [basePosition |-> 0, projectiles |-> <<>>, asteroids |-> <<>>,
     lives |-> 0, score |-> 0, base_hit_sound |-> 0, basehit_sequence |-> 0,
     asteroid_animation_on |-> 0, asteroid_sequence |-> 0,
     animation_x |-> 0, animation_y |-> 0,
     ret |-> 0, hiAsteroids |-> 0, hiProjectiles |-> 0, events |-> <<>>,
     clock |-> 0, basehit_time |-> 0, asteroid_animation_time |-> 0,
     tone |-> 0, capacity |-> MAX_ASTEROIDS]

\* the globals take the values of record t after a call of `name`
Globals(t, name) ==
    /\ basePosition' = t.basePosition
    /\ projectiles' = t.projectiles
    /\ asteroids' = t.asteroids
    /\ lives' = t.lives
    /\ score' = t.score
    /\ base_hit_sound' = t.base_hit_sound
    /\ basehit_sequence' = t.basehit_sequence
    /\ asteroid_animation_on' = t.asteroid_animation_on
    /\ asteroid_sequence' = t.asteroid_sequence
    /\ animation_x' = t.animation_x
    /\ animation_y' = t.animation_y
    /\ ret' = t.ret
    /\ hiAsteroids' = t.hiAsteroids
    /\ hiProjectiles' = t.hiProjectiles
    /\ events' = t.events
    /\ basehit_time' = t.basehit_time
    /\ asteroid_animation_time' = t.asteroid_animation_time
    /\ capacity' = t.capacity
    /\ op' = name

\* the last call has returned
Returned == ~spinning([events |-> events])

\* the same for a call made by a caller other than play_game, once the call
\* before it has returned
Becomes(t, name) == Returned /\ Globals(t, name) /\ UNCHANGED loopvars

\* the globals at the start: record t
Starts(t, name) ==
    /\ basePosition = t.basePosition
    /\ projectiles = t.projectiles
    /\ asteroids = t.asteroids
    /\ lives = t.lives
    /\ score = t.score
    /\ base_hit_sound = t.base_hit_sound
    /\ basehit_sequence = t.basehit_sequence
    /\ asteroid_animation_on = t.asteroid_animation_on
    /\ asteroid_sequence = t.asteroid_sequence
    /\ animation_x = t.animation_x
    /\ animation_y = t.animation_y
    /\ ret = t.ret
    /\ hiAsteroids = t.hiAsteroids
    /\ hiProjectiles = t.hiProjectiles
    /\ events = t.events
    /\ basehit_time = t.basehit_time
    /\ asteroid_animation_time = t.asteroid_animation_time
    /\ capacity = t.capacity
    /\ op = name
    /\ steps = 0

\* play_game is at the loop condition, all its times set to the clock, as on
\* entry (project.c:219-242), with the bytes of `stream` still to come on the
\* serial line; button is not initialised and is written (line 292) before
\* it is read
EnteredWith(now, stream) ==
    /\ clock = now
    /\ pc = "check"
    /\ current_time = now
    /\ last_asteroid_time = now
    /\ last_move_time = now
    /\ last_base_move = now
    /\ axis = 0
    /\ tone = 0
    /\ trigger_time = -1
    /\ inputs = 0
    /\ button = NO_BUTTON_PUSHED
    /\ characters_into_escape_sequence = 0
    /\ serial = stream
    /\ pending = 0

\* the same with a silent serial line
EnteredAt(now) == EnteredWith(now, <<>>)

EnteredAtZero == EnteredAt(0)

\* main() up to its first new_game() (project.c:65-75)
Init ==
    /\ \E stream \in RandomCellStreams :
          Starts([new_game(Boot, stream) EXCEPT !.ret = 0, !.events = <<>>], "new_game")
    /\ EnteredAtZero

MoveLeft ==
    /\ steps < MaxSteps
    /\ Becomes(move_base(Cur, MOVE_LEFT), "move_left")
    /\ steps' = steps + 1

MoveRight ==
    /\ steps < MaxSteps
    /\ Becomes(move_base(Cur, MOVE_RIGHT), "move_right")
    /\ steps' = steps + 1

Fire ==
    /\ steps < MaxSteps
    /\ \E t \in fire_projectile(Cur) : Becomes(t, "fire_projectile")
    /\ steps' = steps + 1

AdvanceAsteroids ==
    /\ steps < MaxSteps
    /\ \E t \in advance_asteroids(Cur) : Becomes(t, "advance_asteroids")
    /\ steps' = steps + 1

AdvanceProjectiles ==
    /\ steps < MaxSteps
    /\ \E t \in advance_projectiles(Cur) : Becomes(t, "advance_projectiles")
    /\ steps' = steps + 1

NewGame ==
    /\ steps > 0
    /\ \E stream \in RandomCellStreams :
           Becomes([new_game(Cur, stream) EXCEPT !.ret = 0, !.events = <<>>], "new_game")
    /\ steps' = 0

Next ==
    \/ MoveLeft
    \/ MoveRight
    \/ Fire
    \/ AdvanceAsteroids
    \/ AdvanceProjectiles
    \/ NewGame

Spec == Init /\ [][Next]_vars

----------------------------------------------------------------------------
(* The same engine, picked up later in a game: after an opening, a fixed   *)
(* sequence of engine calls made from the start of the game.               *)

\* the state a call starts from: nothing returned or recorded yet
Fresh(s) ==
    [s EXCEPT !.ret = 0, !.events = <<>>,
              !.hiAsteroids = numAsteroids(s), !.hiProjectiles = numProjectiles(s)]

\* the states one engine call can lead to
Call(s, name) ==
    CASE name = "move_left" -> {move_base(Fresh(s), MOVE_LEFT)}
      [] name = "move_right" -> {move_base(Fresh(s), MOVE_RIGHT)}
      [] name = "fire_projectile" -> fire_projectile(Fresh(s))
      [] name = "advance_asteroids" -> advance_asteroids(Fresh(s))
      [] name = "advance_projectiles" -> advance_projectiles(Fresh(s))

\* the states a sequence of engine calls can lead to from the states S
RECURSIVE Played(_, _)
Played(S, calls) ==
    IF calls = <<>> THEN S
    ELSE Played(UNION {Call(s, Head(calls)) : s \in {r \in S : ~spinning(r)}},
                Tail(calls))

\* n calls of advance_projectiles
Flight(n) == [i \in 1..n |-> "advance_projectiles"]

\* the openings explored: the base steps right into a clear column and
\* fires one projectile, or two, which then fly to the top of the field
Openings ==
    { <<"move_right", "fire_projectile">> \o Flight(FlightCalls),
      <<"move_right", "fire_projectile", "advance_projectiles", "fire_projectile">>
          \o Flight(FlightCalls - 1) }

InitLate ==
    /\ \E stream \in RandomCellStreams, calls \in Openings :
          \E t \in Played({new_game(Boot, stream)}, calls) :
              Starts(t, calls[Len(calls)])
    /\ EnteredAtZero

SpecLate == InitLate /\ [][Next]_vars

----------------------------------------------------------------------------
(* main() of project.c: new_game, play_game, handle_game_over, for ever.   *)
(* play_game is taken block by block; the timer interrupt advances the     *)
(* clock between two passes of a loop, a pass being short against a tick.  *)
(* The buzzer itself (DDRD, the start-up chime, the tone of a shot) is not *)
(* part of the state. The serial line delivers the bytes of `serial`, each *)
(* at any time; it is silent where a specification starts it empty.        *)

\* project.c:439: 300 - 200*sin(basehit_sequence/0.8), in ms rounded up
\* (110.2, 180.3 and 414.4 for the steps 1, 2, 3): the handler acts once the
\* clock is that far from basehit_time
basehit_delay(sequence) ==
    CASE sequence = 1 -> 111
      [] sequence = 2 -> 181
      [] sequence = 3 -> 415
      [] OTHER -> 300

\* project.c:441-451
basehit_tone(sequence) ==
    CASE sequence = 1 -> 500
      [] sequence = 2 -> 350
      [] sequence = 3 -> 200
      [] OTHER -> 0

\* handle_basehit_sound without the test of line 458: the alarm stays on
handle_basehit_sound_stays_on(s, audio) ==
    IF s.clock - basehit_delay(s.basehit_sequence) >= s.basehit_time
    THEN [s EXCEPT !.tone = IF audio THEN basehit_tone(s.basehit_sequence) ELSE 0,
                   !.basehit_sequence = @ + 1,
                   !.basehit_time = s.clock]
    ELSE s

\* project.c:438-462; audio is bit 3 of PIND
handle_basehit_sound(s, audio) ==
    LET stepped ==
            IF s.clock - basehit_delay(s.basehit_sequence) >= s.basehit_time
            THEN [s EXCEPT !.tone = IF audio THEN basehit_tone(s.basehit_sequence) ELSE 0,
                           !.basehit_sequence = @ + 1,
                           !.basehit_time = s.clock]
            ELSE s
    IN  IF stepped.basehit_sequence = 4
        THEN [stepped EXCEPT !.base_hit_sound = 0]
        ELSE stepped

\* project.c:471: get_current_time()-10 >= asteroid_animation_time, in
\* uint32_t: below 10 the difference wraps to more than any time of the model
frame_due(now, last) ==
    IF now < FRAME_INTERVAL THEN TRUE ELSE now - FRAME_INTERVAL >= last

\* project.c:469-492
handle_asteroid_animation(s) ==
    IF frame_due(s.clock, s.asteroid_animation_time)
    THEN [s EXCEPT !.asteroid_animation_on = IF s.asteroid_sequence = 4 THEN 0 ELSE @,
                   !.asteroid_animation_time = s.clock,
                   !.asteroid_sequence = @ + 1]
    ELSE s

\* project.c:365: current_time >= last_asteroid_time + 500 - get_score()*1.8,
\* in tenths of a ms (the times of the model are far from the end of uint32_t)
asteroids_due(now, last, points) ==
    10 * now >= 10 * (last + ASTEROID_INTERVAL) - 18 * points

\* the call raised the alarm (enable_basehit_sound)
Triggered(t) ==
    \E k \in 1..Len(t.events) : t.events[k].kind \in {"rammed", "base_hit"}

\* a block of play_game has run and left the globals as record t; main()
\* goes on to the next block, unless it stays in the loop of regen_asteroid
Block(t, name, next) ==
    /\ Globals(t, name)
    /\ tone' = t.tone
    /\ trigger_time' = IF Triggered(t) THEN clock ELSE trigger_time
    /\ pc' = IF spinning(t) THEN "regen_asteroid" ELSE next
    /\ UNCHANGED <<clock, steps>>

\* the timer interrupt: get_current_time() moves on
Tick ==
    /\ pc \in {"check", "wait_button"}
    /\ clock + TickMs <= MaxTime
    /\ clock' = clock + TickMs
    /\ tone' = 0
    /\ UNCHANGED <<basePosition, projectiles, asteroids, lives, score,
                   base_hit_sound, basehit_sequence, asteroid_animation_on,
                   asteroid_sequence, animation_x, animation_y,
                   op, ret, hiAsteroids, hiProjectiles, events, steps, capacity,
                   basehit_time, asteroid_animation_time,
                   pc, current_time, last_asteroid_time, last_move_time,
                   last_base_move, axis, trigger_time, inputs, polled>>

\* project.c:245: the loop condition; play_game returns when the game is over
LoopCheck ==
    /\ pc = "check"
    /\ Block(Cur, "is_game_over",
             IF is_game_over(Cur) = 1 THEN "game_over" ELSE "input")
    /\ UNCHANGED <<current_time, last_asteroid_time, last_move_time,
                   last_base_move, axis, inputs, polled>>

\* the buttons button_pushed() can report
Buttons == IF inputs < MaxInputs THEN NO_BUTTON_PUSHED..3 ELSE {NO_BUTTON_PUSHED}

\* no character: the -1 of lines 290, 291, 303, 307 and 311
NO_CHAR == "-1"

\* read_serial in which a byte that does not continue the escape sequence
\* leaves the sequence where it is
read_serial_keeps_sequence(into, byte) ==
    IF into = 0 /\ byte = ESCAPE_CHAR
    THEN [into |-> 1, serial_input |-> NO_CHAR, escape_sequence_char |-> NO_CHAR]
    ELSE IF into = 1 /\ byte = "["
    THEN [into |-> 2, serial_input |-> NO_CHAR, escape_sequence_char |-> NO_CHAR]
    ELSE IF into = 2
    THEN [into |-> 0, serial_input |-> NO_CHAR, escape_sequence_char |-> byte]
    ELSE [into |-> into, serial_input |-> byte, escape_sequence_char |-> NO_CHAR]

\* project.c:300-319: the byte read, with `into` characters of an escape
\* sequence seen before it
read_serial(into, byte) ==
    IF into = 0 /\ byte = ESCAPE_CHAR
    THEN [into |-> 1, serial_input |-> NO_CHAR, escape_sequence_char |-> NO_CHAR]
    ELSE IF into = 1 /\ byte = "["
    THEN [into |-> 2, serial_input |-> NO_CHAR, escape_sequence_char |-> NO_CHAR]
    ELSE IF into = 2
    THEN [into |-> 0, serial_input |-> NO_CHAR, escape_sequence_char |-> byte]
    ELSE [into |-> 0, serial_input |-> byte, escape_sequence_char |-> NO_CHAR]

\* nothing was read (line 294 or 296 failed)
not_read(into) ==
    [into |-> into, serial_input |-> NO_CHAR, escape_sequence_char |-> NO_CHAR]

\* project.c:324-358: what the input leads to
dispatch(pushed, escape_sequence_char, serial_input) ==
    IF pushed = 3 \/ escape_sequence_char = "D" \/ serial_input \in {"L", "l"}
    THEN "move_left"
    ELSE IF pushed = 2 \/ escape_sequence_char = "A" \/ serial_input = " "
    THEN "fire_projectile"
    ELSE IF pushed = 1 \/ escape_sequence_char = "B"
    THEN "none"
    ELSE IF pushed = 0 \/ escape_sequence_char = "C" \/ serial_input \in {"R", "r"}
    THEN "move_right"
    ELSE IF serial_input \in {"p", "P"}
    THEN "pause"
    ELSE "none"

\* the engine call of a dispatch, for each way it can end
dispatched(s, call) ==
    CASE call = "move_left" -> {move_base(s, MOVE_LEFT)}
      [] call = "move_right" -> {move_base(s, MOVE_RIGHT)}
      [] call = "fire_projectile" -> fire_projectile(s)
      [] OTHER -> {s}

\* project.c:349-354: the pause reads and drops bytes up to the next p or P
has_resume(stream) == \E i \in 1..Len(stream) : stream[i] \in {"p", "P"}

after_pause(stream) ==
    LET resume == MinOf({i \in 1..Len(stream) : stream[i] \in {"p", "P"}})
    IN  SubSeq(stream, resume + 1, Len(stream))

\* project.c:290-358: the input is polled and dispatched. `arrived` bytes
\* are in the input buffer at the poll. A pause whose second p is not among
\* the bytes explored does not end, and is no step.
LoopInput ==
    /\ pc = "input"
    /\ \E pushed \in Buttons, arrived \in pending..Len(serial) :
          LET reads == pushed = NO_BUTTON_PUSHED /\ arrived > 0
              got == IF reads
                     THEN read_serial(characters_into_escape_sequence, Head(serial))
                     ELSE not_read(characters_into_escape_sequence)
              call == dispatch(pushed, got.escape_sequence_char, got.serial_input)
              rest == IF reads THEN Tail(serial) ELSE serial
          IN  /\ call = "pause" => has_resume(rest)
              /\ \E t \in dispatched(Cur, call) : Block(t, call, "asteroids")
              /\ button' = pushed
              /\ characters_into_escape_sequence' = got.into
              /\ serial' = IF call = "pause" THEN after_pause(rest) ELSE rest
              /\ pending' = IF call = "pause" THEN 0
                            ELSE IF reads THEN arrived - 1 ELSE arrived
              /\ inputs' = IF pushed = NO_BUTTON_PUSHED THEN inputs ELSE inputs + 1
    /\ UNCHANGED <<current_time, last_asteroid_time, last_move_time,
                   last_base_move, axis>>

\* project.c:362-372
LoopAsteroids ==
    /\ pc = "asteroids"
    /\ current_time' = clock
    /\ IF is_game_over(Cur) = 0 /\ asteroids_due(clock, last_asteroid_time, score)
       THEN /\ \E t \in advance_asteroids(Cur) :
                  Block(t, "advance_asteroids", "projectiles")
            /\ last_asteroid_time' = clock
       ELSE /\ Block(Cur, "none", "projectiles")
            /\ UNCHANGED last_asteroid_time
    /\ UNCHANGED <<last_move_time, last_base_move, axis, inputs, polled>>

\* project.c:374-381
LoopProjectiles ==
    /\ pc = "projectiles"
    /\ IF is_game_over(Cur) = 0
             /\ current_time >= last_move_time + PROJECTILE_INTERVAL
       THEN /\ \E t \in advance_projectiles(Cur) :
                  Block(t, "advance_projectiles", "joystick")
            /\ last_move_time' = current_time
       ELSE /\ Block(Cur, "none", "joystick")
            /\ UNCHANGED last_move_time
    /\ UNCHANGED <<current_time, last_asteroid_time, last_base_move, axis,
                   inputs, polled>>

\* the values the ADC can give: below 300, in between, above 700
JoystickValues == IF inputs < MaxInputs THEN {100, 512, 900} ELSE {512}

\* project.c:384-414
LoopJoystick ==
    /\ pc = "joystick"
    /\ IF is_game_over(Cur) = 0
             /\ current_time >= last_base_move + JOYSTICK_INTERVAL
       THEN /\ \E value \in JoystickValues :
                  /\ IF axis = 0
                     THEN IF value > 700
                          THEN Block(move_base(Cur, MOVE_LEFT), "move_left", "alarm")
                          ELSE IF value < 300
                          THEN Block(move_base(Cur, MOVE_RIGHT), "move_right", "alarm")
                          ELSE Block(Cur, "none", "alarm")
                     ELSE IF value > 700 \/ value < 300
                          THEN \E t \in fire_projectile(Cur) :
                                  Block(t, "fire_projectile", "alarm")
                          ELSE Block(Cur, "none", "alarm")
                  /\ inputs' = IF value > 700 \/ value < 300 THEN inputs + 1 ELSE inputs
            /\ axis' = 1 - axis
            /\ last_base_move' = current_time
       ELSE /\ Block(Cur, "none", "alarm")
            /\ UNCHANGED <<axis, last_base_move, inputs>>
    /\ UNCHANGED <<current_time, last_asteroid_time, last_move_time, polled>>

\* LoopAlarm without the is_game_over() test of line 417
LoopAlarm_unguarded ==
    /\ pc = "alarm"
    /\ IF base_hit_sound # 0
       THEN \E audio \in BOOLEAN :
               Block(handle_basehit_sound(Cur, audio), "handle_basehit_sound", "animation")
       ELSE Block(Cur, "none", "animation")
    /\ UNCHANGED <<current_time, last_asteroid_time, last_move_time,
                   last_base_move, axis, inputs, polled>>

\* project.c:416-419
LoopAlarm ==
    /\ pc = "alarm"
    /\ IF is_game_over(Cur) = 0 /\ base_hit_sound # 0
       THEN \E audio \in BOOLEAN :
               Block(handle_basehit_sound(Cur, audio), "handle_basehit_sound", "animation")
       ELSE Block(Cur, "none", "animation")
    /\ UNCHANGED <<current_time, last_asteroid_time, last_move_time,
                   last_base_move, axis, inputs, polled>>

\* project.c:421-424
LoopAnimation ==
    /\ pc = "animation"
    /\ IF is_game_over(Cur) = 0 /\ asteroid_animation_on # 0
       THEN Block(handle_asteroid_animation(Cur), "handle_asteroid_animation", "check")
       ELSE Block(Cur, "none", "check")
    /\ UNCHANGED <<current_time, last_asteroid_time, last_move_time,
                   last_base_move, axis, inputs, polled>>

\* project.c:521-540: handle_game_over starts and raises the alarm itself
GameOverBegin ==
    /\ pc = "game_over"
    /\ Globals([Cur EXCEPT !.base_hit_sound = 1, !.basehit_sequence = 1],
               "handle_game_over")
    /\ pc' = "wait_button"
    /\ tone' = 0
    /\ trigger_time' = clock
    /\ UNCHANGED <<clock, steps, current_time, last_asteroid_time, last_move_time,
                   last_base_move, axis, inputs, polled>>

\* project.c:542-573: one pass of the wait for a button
GameOverWait ==
    /\ pc = "wait_button"
    /\ IF base_hit_sound # 0
       THEN \E audio \in BOOLEAN :
               Block(handle_basehit_sound(Cur, audio), "handle_basehit_sound",
                     "wait_button")
       ELSE Block(Cur, "none", "wait_button")
    /\ UNCHANGED <<current_time, last_asteroid_time, last_move_time,
                   last_base_move, axis, inputs, polled>>

\* a button ends handle_game_over; main calls new_game, which drops the
\* bytes in the input buffer (line 205), and play_game, which reads the
\* clock (project.c:75-76, 188-214, 219-242)
Restart ==
    /\ pc = "wait_button"
    /\ inputs < MaxInputs
    /\ inputs' = inputs + 1
    /\ \E stream \in RandomCellStreams :
          Globals([new_game(Cur, stream) EXCEPT !.ret = 0, !.events = <<>>], "new_game")
    /\ pc' = "check"
    /\ tone' = 0
    /\ current_time' = clock
    /\ last_asteroid_time' = clock
    /\ last_move_time' = clock
    /\ last_base_move' = clock
    /\ axis' = 0
    /\ steps' = 0
    /\ button' = NO_BUTTON_PUSHED
    /\ characters_into_escape_sequence' = 0
    /\ \E arrived \in pending..Len(serial) :
          serial' = SubSeq(serial, arrived + 1, Len(serial))
    /\ pending' = 0
    /\ UNCHANGED <<clock, trigger_time>>

\* one call of play_game
RoundNext ==
    \/ Tick
    \/ LoopCheck
    \/ LoopInput
    \/ LoopAsteroids
    \/ LoopProjectiles
    \/ LoopJoystick
    \/ LoopAlarm
    \/ LoopAnimation

LoopNext ==
    \/ RoundNext
    \/ GameOverBegin
    \/ GameOverWait
    \/ Restart

SpecLoop == Init /\ [][LoopNext]_vars

\* main() is in play_game or at the start of handle_game_over and goes on
\* to its next block
MainRuns ==
    /\ pc \notin {"wait_button", "regen_asteroid"}
    /\ \E next \in {"check", "input", "asteroids", "projectiles", "joystick",
                    "alarm", "animation", "game_over", "wait_button"} \ {pc} :
          pc' = next

\* the same with the scheduling of the machine: the timer interrupt keeps
\* firing (until the clock of the model stops), main() keeps running, and
\* the wait loop of handle_game_over keeps servicing the alarm; no button
\* need ever be pushed
SpecLoopFair ==
    SpecLoop /\ SF_vars(Tick) /\ WF_pc(MainRuns) /\ WF_vars(GameOverWait)

\* play_game picked up in its first pass, right after its input block fired
\* a projectile (button 2); the inputs are counted from here
InitFired ==
    /\ \E stream \in RandomCellStreams :
          \E t \in Played({new_game(Boot, stream)}, <<"fire_projectile">>) :
              Starts(t, "fire_projectile")
    /\ clock = 0
    /\ pc = "asteroids"
    /\ current_time = 0
    /\ last_asteroid_time = 0
    /\ last_move_time = 0
    /\ last_base_move = 0
    /\ axis = 0
    /\ tone = 0
    /\ trigger_time = -1
    /\ inputs = 0
    /\ button = 2
    /\ characters_into_escape_sequence = 0
    /\ serial = <<>>
    /\ pending = 0

\* one game and the wait that follows it, no button pushed in that wait
GameNext ==
    \/ RoundNext
    \/ GameOverBegin
    \/ GameOverWait

SpecFired == InitFired /\ [][GameNext]_vars

SpecFiredFair ==
    SpecFired /\ SF_vars(Tick) /\ WF_pc(MainRuns) /\ WF_vars(GameOverWait)

\* the bytes the serial line is explored with: the three cursor keys, an
\* escape followed by a letter key, an escape followed by a cursor key, a
\* letter key held back behind a button, and a pause
SerialStreams ==
    { <<ESCAPE_CHAR, "[", "D">>,
      <<ESCAPE_CHAR, "[", "C">>,
      <<ESCAPE_CHAR, "[", "A">>,
      <<ESCAPE_CHAR, "L", "[", "D">>,
      <<ESCAPE_CHAR, ESCAPE_CHAR, "[", "C">>,
      <<"r", " ">>,
      <<"p", "l", "P", "R">> }

\* a game started late, with bytes to come on the serial line
InitInput ==
    /\ \E stream \in RandomCellStreams :
          Starts([new_game(Boot, stream) EXCEPT !.ret = 0, !.events = <<>>], "new_game")
    /\ \E stream \in SerialStreams : EnteredWith(MaxTime - TickMs, stream)

SpecInput == InitInput /\ [][RoundNext]_vars

\* a build with room for ManyAsteroids asteroids, under any caller. The
\* values of random() explored give the cells (0,15) .. (7,15) and (3,3),
\* or (0,15) .. (6,15), (3,3) and (3,4)
CrowdedCellStreams ==
    { << <<0, 12>>, <<1, 12>>, <<2, 12>>, <<3, 12>>, <<4, 12>>, <<5, 12>>,
         <<6, 12>>, <<7, 12>>, <<3, 0>> >>,
      << <<0, 12>>, <<1, 12>>, <<2, 12>>, <<3, 12>>, <<4, 12>>, <<5, 12>>,
         <<6, 12>>, <<3, 0>>, <<3, 1>> >> }

InitCrowded ==
    /\ \E stream \in CrowdedCellStreams :
          Starts([new_game([Boot EXCEPT !.capacity = ManyAsteroids], stream)
                     EXCEPT !.ret = 0, !.events = <<>>], "new_game")
    /\ EnteredAtZero

SpecCrowded == InitCrowded /\ [][Next]_vars

\* a game picked up late, at the start of a pass of the loop, with points
\* scored and the asteroids and projectiles just advanced
InitScored ==
    /\ \E stream \in RandomCellStreams, points \in {TopScore - 1, TopScore} :
          Starts([new_game(Boot, stream) EXCEPT !.score = points], "new_game")
    /\ EnteredAt(MaxTime - TickMs)

SpecScored == InitScored /\ [][RoundNext]_vars

----------------------------------------------------------------------------
(* Vocabulary of the properties *)

\* the cells named by the live part of a bag
Cells(bag) == {bag[i] : i \in 1..Len(bag)}

Distinct(bag) == \A i, j \in 1..Len(bag) : i # j => bag[i] # bag[j]

GameOver == is_game_over(Cur) = 1

\* the footprint of the base: (c-1,0), (c,0), (c+1,0), (c,1)
Footprint ==
    {GAME_POSITION(x, 0) : x \in {basePosition - 1, basePosition, basePosition + 1}
                                     \cap (0..(FIELD_WIDTH - 1))}
        \cup {GAME_POSITION(basePosition, 1)}

NoAsteroidInFootprint == Cells(asteroids) \cap Footprint = {}

----------------------------------------------------------------------------
(* C1 *)

\* a move that would take the centre out of 0..7
C1_Refused ==
    \/ (op' = "move_left" /\ basePosition = 0)
    \/ (op' = "move_right" /\ basePosition = LAST_BASE)

\* C1: the base centre is in 0..7 in every reachable state, and a move_base
\* call that would take it outside (LEFT at 0, RIGHT at 7) returns 0 and
\* leaves the centre, both bags and lives as they were.
C1_BaseStaysInField ==
    /\ basePosition \in 0..(FIELD_WIDTH - 1)
    /\ [][/\ basePosition' \in 0..(FIELD_WIDTH - 1)
          /\ C1_Refused =>
                /\ ret' = 0
                /\ basePosition' = basePosition
                /\ asteroids' = asteroids
                /\ projectiles' = projectiles
                /\ lives' = lives]_vars

\* a LEFT move was refused at the left edge
C1_Witness == op = "move_left" /\ ret = 0 /\ basePosition = 0

----------------------------------------------------------------------------
(* C2 *)

\* C2: lives is in 0..4 after initialise and after every engine call.
C2_LivesInRange == lives \in 0..INITIAL_LIVES

----------------------------------------------------------------------------
(* C3 *)

\* C3: every destruction of an asteroid is paired with one regeneration, so
\* numAsteroids is MAX_ASTEROIDS after initialise and after every engine call.
C3_AsteroidsConserved == Len(asteroids) = MAX_ASTEROIDS

----------------------------------------------------------------------------
(* C4 *)

TopRowAsteroids == {i \in 1..Len(asteroids) : GET_Y_POSITION(asteroids[i]) = TOP_ROW}

\* C4: the cells in asteroids[0..numAsteroids-1] are pairwise distinct after
\* initialise and after every engine call.
C4_AsteroidsDistinct == Distinct(asteroids)

\* two hits were scored and both replacements are in the top row
C4_Witness == Cardinality(TopRowAsteroids) >= 2 /\ score >= 2

----------------------------------------------------------------------------
(* C5 *)

\* C5: the cells in projectiles[0..numProjectiles-1] are pairwise distinct
\* after every engine call.
C5_ProjectilesDistinct == Distinct(projectiles)

\* two projectiles in flight in one column, after they were advanced
C5_Witness ==
    /\ op = "advance_projectiles"
    /\ Len(projectiles) = 2
    /\ GET_X_POSITION(projectiles[1]) = GET_X_POSITION(projectiles[2])

----------------------------------------------------------------------------
(* C6 *)

\* C6: numAsteroids stays in 0..MAX_ASTEROIDS and numProjectiles in
\* 0..MAX_PROJECTILES, also at every point inside an engine call (hiAsteroids
\* and hiProjectiles are the largest values the counts took during the call).
C6_BagBounds ==
    /\ Len(asteroids) \in 0..MAX_ASTEROIDS
    /\ Len(projectiles) \in 0..MAX_PROJECTILES
    /\ hiAsteroids \in 0..MAX_ASTEROIDS
    /\ hiProjectiles \in 0..MAX_PROJECTILES

\* an asteroid was regenerated into a full bag while the projectile bag is full
C6_Witness ==
    /\ op = "advance_asteroids"
    /\ lives < INITIAL_LIVES
    /\ hiAsteroids = MAX_ASTEROIDS
    /\ Len(asteroids) = MAX_ASTEROIDS
    /\ Len(projectiles) = MAX_PROJECTILES

----------------------------------------------------------------------------
(* C7 *)

\* C7: the call that loses the 4th life turns is_game_over() from 0 to 1;
\* once 1 it stays 1 under every engine call until new_game; and it is 1
\* exactly when lives < 1.
C7_GameOverLatches ==
    /\ GameOver <=> lives < 1
    /\ [][/\ (lives > INITIAL_LIVES - 4 /\ lives' <= INITIAL_LIVES - 4)
                => (~GameOver /\ GameOver')
          /\ (GameOver /\ op' # "new_game") => GameOver'
          /\ GameOver' <=> lives' < 1]_vars

\* the 4th life is lost and the engine was called again
C7_Witness == GameOver /\ lives = 0 /\ op = "fire_projectile"

----------------------------------------------------------------------------
(* C8 *)

\* C8: fire_projectile called with the projectile bag at capacity, or with a
\* projectile in the firing cell (centre, 2), returns 0 and leaves the
\* projectiles, the asteroids, the score and lives as they were.
C8_FireRefused ==
    [][(/\ op' = "fire_projectile"
        /\ \/ Len(projectiles) >= MAX_PROJECTILES
           \/ projectile_at(Cur, basePosition, FIRE_ROW) # -1)
          => /\ ret' = 0
             /\ projectiles' = projectiles
             /\ asteroids' = asteroids
             /\ score' = score
             /\ lives' = lives]_vars

\* a fire was refused at capacity although the firing cell was free
C8_Witness ==
    /\ op = "fire_projectile"
    /\ ret = 0
    /\ Len(projectiles) = MAX_PROJECTILES
    /\ projectile_at(Cur, basePosition, FIRE_ROW) = -1

----------------------------------------------------------------------------
(* C9 *)

FiringCell == GAME_POSITION(basePosition, FIRE_ROW)

\* the asteroid in the firing cell is destroyed, the score rises by 1, one
\* replacement appears in row 15, no projectile is created, 1 is returned
C9_Effect ==
    /\ ret' = 1
    /\ score' = score + 1
    /\ projectiles' = projectiles
    /\ Len(asteroids') = Len(asteroids)
    /\ FiringCell \notin Cells(asteroids')
    /\ \E q \in Cells(asteroids') \ Cells(asteroids) :
          /\ GET_Y_POSITION(q) = TOP_ROW
          /\ Cells(asteroids') = (Cells(asteroids) \ {FiringCell}) \cup {q}

\* C9 as stated: fire_projectile called with an asteroid in the firing cell
\* destroys it, adds 1 to the score, spawns one replacement in row 15,
\* creates no projectile and returns 1.
C9_FireHitsAsteroid ==
    [][(op' = "fire_projectile" /\ FiringCell \in Cells(asteroids))
          => C9_Effect]_vars

\* C9 amended: the same, for a call made with the projectile bag below
\* capacity.
C9_FireHitsAsteroidBelowCapacity ==
    [][(/\ op' = "fire_projectile"
        /\ FiringCell \in Cells(asteroids)
        /\ Len(projectiles) < MAX_PROJECTILES)
          => C9_Effect]_vars

\* a fire succeeded without creating a projectile: it hit an asteroid
C9_Witness ==
    op = "fire_projectile" /\ ret = 1 /\ score = 1 /\ Len(projectiles) = 0

----------------------------------------------------------------------------
(* C10 *)

\* the state the scenario of C10 starts from: an asteroid at (4,0) under a
\* base whose centre is 4. That cell is in the footprint of the base, which
\* no asteroid enters (NoAsteroidInFootprint), so no engine call starts here.
C10_ScenarioState ==
    basePosition = 4 /\ GAME_POSITION(4, 0) \in Cells(asteroids)

C10_ScenarioNeverArises == ~C10_ScenarioState

----------------------------------------------------------------------------
(* History of the last call *)

\* the entries of the history of the last call that are of one kind
EventsOf(kind) == {k \in 1..Len(events) : events[k].kind = kind}

\* the cells that asteroids or projectiles of one kind of entry were in
CellsOf(kind) == {events[k].from : k \in EventsOf(kind)}

----------------------------------------------------------------------------
(* C11 *)

\* the projectiles in the top row
TopRowProjectiles ==
    {projectiles[i] : i \in {j \in 1..Len(projectiles) :
                                GET_Y_POSITION(projectiles[j]) = TOP_ROW}}

\* C11: advance_projectiles removes every projectile that is in row 15: it
\* leaves off the top, hits nothing, and the count drops by 1 for it; when no
\* other projectile hits an asteroid the asteroid bag and the score are as
\* they were, also when an asteroid is in the cell of the projectile.
C11_TopRowProjectileLeaves ==
    [][(op' = "advance_projectiles" /\ TopRowProjectiles # {})
          => /\ \A c \in TopRowProjectiles :
                   /\ \E k \in 1..Len(events') :
                         events'[k].kind = "off_top" /\ events'[k].from = c
                   /\ \A k \in 1..Len(events') :
                         events'[k].kind = "hit" => events'[k].from # c
             /\ Len(projectiles') =
                   Len(projectiles)
                     - Cardinality({k \in 1..Len(events') :
                                       events'[k].kind \in {"off_top", "hit"}})
             /\ Cardinality({k \in 1..Len(events') : events'[k].kind = "off_top"})
                   = Cardinality(TopRowProjectiles)
             /\ (\A k \in 1..Len(events') : events'[k].kind # "hit")
                   => (asteroids' = asteroids /\ score' = score)]_vars

\* a projectile left off the top from a cell that holds an asteroid
C11_Witness ==
    /\ op = "advance_projectiles"
    /\ CellsOf("off_top") \cap Cells(asteroids) # {}
    /\ EventsOf("hit") = {}

----------------------------------------------------------------------------
(* C12 *)

\* C12: a new game has 4 lives, score 0, the base at 3, no projectile and
\* MAX_ASTEROIDS asteroids, all in rows 3..15 and in distinct cells, whatever
\* the game before left.
C12_NewGameState ==
    op = "new_game"
        => /\ lives = INITIAL_LIVES
           /\ score = 0
           /\ basePosition = INITIAL_BASE
           /\ Len(projectiles) = 0
           /\ Len(asteroids) = MAX_ASTEROIDS
           /\ \A i \in 1..Len(asteroids) :
                 /\ GET_Y_POSITION(asteroids[i]) >= LOWEST_START_ROW
                 /\ GET_X_POSITION(asteroids[i]) \in 0..(FIELD_WIDTH - 1)
           /\ Distinct(asteroids)

\* a new game was started after a game in which the base was hit: the alarm
\* that hit raised is still pending
C12_Witness == op = "new_game" /\ base_hit_sound = 1 /\ steps = 0

----------------------------------------------------------------------------
(* C13 *)

\* C13: the interval 500 - 1.8 * score that play_game compares with the time
\* since the last advance of the asteroids is positive whatever the score,
\* so a pass of the loop that calls advance_asteroids finds the clock later
\* than at the last advance: no two calls are made at the same time.
C13_IntervalPositive ==
    [][(pc = "asteroids" /\ op' = "advance_asteroids")
          => /\ 10 * ASTEROID_INTERVAL - 18 * score > 0
             /\ clock > last_asteroid_time]_vars

----------------------------------------------------------------------------
(* C14 *)

\* the blocks of play_game
PlayGameBlocks ==
    {"check", "input", "asteroids", "projectiles", "joystick", "alarm", "animation"}

\* C14: once lives is below 1 inside play_game, the rest of the pass calls
\* none of move_base, fire_projectile, advance_asteroids, advance_projectiles,
\* does not service the alarm or the explosion animation, and the next look
\* at the loop condition ends play_game.
C14_LoopStopsAtGameOver ==
    [][(lives < 1 /\ pc \in PlayGameBlocks)
          => /\ op' \in {"none", "is_game_over"} \/ UNCHANGED <<op, pc>>
             /\ UNCHANGED <<basePosition, projectiles, asteroids, lives, score>>
             /\ UNCHANGED <<base_hit_sound, basehit_sequence, basehit_time>>
             /\ UNCHANGED <<asteroid_animation_on, asteroid_sequence,
                            asteroid_animation_time>>
             /\ tone' = 0
             /\ pc = "check" => pc' \in {"check", "game_over"}
             /\ (pc = "check" /\ pc' = "check") => clock' # clock
             /\ pc' \in PlayGameBlocks \cup {"game_over"}]_vars

\* play_game has returned from a pass in which the last life was lost by a
\* base hit: the alarm that hit raised was not serviced
C14_Witness ==
    /\ pc = "game_over"
    /\ lives < 1
    /\ base_hit_sound = 1
    /\ basehit_sequence = 1
    /\ trigger_time = clock
    /\ current_time = clock

----------------------------------------------------------------------------
(* C15 *)

\* the direction of the move the next call makes: -1 left, +1 right, 0 none
MoveDirection ==
    IF op' = "move_left" THEN -1 ELSE IF op' = "move_right" THEN 1 ELSE 0

\* the two ram cells of a move in direction d that are in the field
RamCells(d) ==
    {GAME_POSITION(xy[1], xy[2]) :
        xy \in {xy \in {<<basePosition + 2 * d, 0>>, <<basePosition + d, 1>>} :
                   xy[1] \in 0..(FIELD_WIDTH - 1)}}

\* C15: a successful move_base destroys the asteroid in each of its two ram
\* cells ((c-2,0) and (c-1,1) going left, (c+2,0) and (c+1,1) going right)
\* that holds one, loses one life for each and triggers the alarm; no other
\* asteroid is touched, the projectiles and the score stay, and the centre
\* moves by exactly 1.
C15_MoveRamsTwoCells ==
    [][(MoveDirection # 0 /\ ret' = 1)
          => LET rammed == RamCells(MoveDirection) \cap Cells(asteroids)
             IN  /\ Cells(asteroids') = Cells(asteroids) \ rammed
                 /\ Len(asteroids') = Len(asteroids) - Cardinality(rammed)
                 /\ lives' = lives - Cardinality(rammed)
                 /\ rammed # {} => (base_hit_sound' = 1 /\ basehit_sequence' = 1)
                 /\ rammed = {} => (/\ base_hit_sound' = base_hit_sound
                                    /\ basehit_sequence' = basehit_sequence)
                 /\ basePosition' = basePosition + MoveDirection
                 /\ projectiles' = projectiles
                 /\ score' = score]_vars

\* one move rammed two asteroids
C15_Witness ==
    /\ op \in {"move_left", "move_right"}
    /\ ret = 1
    /\ Cardinality(EventsOf("rammed")) = 2

----------------------------------------------------------------------------
(* C16 *)

\* the cell one row below a cell is in the footprint of the base
AboveFootprint(cell) ==
    GET_Y_POSITION(cell) > 0 /\ (cell - 1) \in Footprint

\* C16: in advance_asteroids an asteroid that no projectile hits registers a
\* base hit exactly when the cell below it is in the footprint of the base;
\* each base hit costs one life, triggers the alarm, removes the asteroid
\* where it is and regenerates one; an asteroid whose cell below is not in
\* the footprint changes neither lives nor the alarm.
C16_BaseHitIffAboveFootprint ==
    [][(op' = "advance_asteroids")
          => LET hits == {k \in 1..Len(events') : events'[k].kind = "base_hit"}
             IN  /\ \A k \in 1..Len(events') :
                       events'[k].kind \in {"base_hit", "moved", "wrapped"}
                          => (events'[k].kind = "base_hit"
                                <=> AboveFootprint(events'[k].from))
                 /\ \A k \in hits :
                       /\ k < Len(events')
                       /\ events'[k + 1].kind = "regen"
                       /\ events'[k].to = events'[k].from
                 /\ lives' = lives - Cardinality(hits)
                 /\ Len(asteroids') = Len(asteroids)
                 /\ hits # {} => (base_hit_sound' = 1 /\ basehit_sequence' = 1)
                 /\ hits = {} => (/\ base_hit_sound' = base_hit_sound
                                  /\ basehit_sequence' = basehit_sequence)]_vars

\* one call registered a base hit for one asteroid and moved another
C16_Witness ==
    /\ op = "advance_asteroids"
    /\ EventsOf("base_hit") # {}
    /\ EventsOf("moved") # {}

----------------------------------------------------------------------------
(* C17 *)

\* C17: one advance_asteroids call moves each asteroid at most once: an
\* asteroid that the call moves down ends one row lower in its column and is
\* not looked at again, and every asteroid the call respawns from row 0 or
\* regenerates is still in row 15, where it was put, when the call returns.
C17_AsteroidsMoveOnce ==
    [][(op' = "advance_asteroids")
          => \A k \in 1..Len(events') :
                /\ events'[k].kind = "moved"
                      => /\ events'[k].to = events'[k].from - 1
                         /\ events'[k].to \in Cells(asteroids')
                /\ events'[k].kind \in {"wrapped", "regen"}
                      => /\ GET_Y_POSITION(events'[k].to) = TOP_ROW
                         /\ events'[k].to \in Cells(asteroids')
                /\ events'[k].kind \in {"moved", "wrapped", "regen"}
                      => \A j \in (k + 1)..Len(events') :
                            events'[j].kind = "regen"
                               \/ events'[j].from # events'[k].to]_vars

----------------------------------------------------------------------------
(* C18 *)

\* in no column is an asteroid in a row below a projectile; so the state in
\* which projectile_at(x, y-1) of line 270 is asked for the row below row 0,
\* with a projectile at (x,15), does not arise
NoAsteroidUnderProjectile ==
    \A i \in 1..Len(asteroids), j \in 1..Len(projectiles) :
        GET_X_POSITION(asteroids[i]) = GET_X_POSITION(projectiles[j])
            => GET_Y_POSITION(asteroids[i]) >= GET_Y_POSITION(projectiles[j])

\* C18: advance_asteroids destroys a projectile only if it is in the cell
\* (x,y) of the asteroid being processed or in the cell (x,y-1) below it in
\* the field; every other projectile stays where it is; each such hit adds
\* exactly 1 to the score and removes one projectile and one asteroid, which
\* is regenerated.
C18_ShotOnlyInOrBelowCell ==
    [][(op' = "advance_asteroids")
          => LET shots == {k \in 1..Len(events') : events'[k].kind = "shot"}
             IN  /\ \A k \in shots :
                       /\ \/ events'[k].to = events'[k].from
                          \/ /\ GET_Y_POSITION(events'[k].from) > 0
                             /\ events'[k].to = events'[k].from - 1
                       /\ events'[k].to \in Cells(projectiles)
                       /\ k < Len(events')
                       /\ events'[k + 1].kind = "regen"
                 /\ Cells(projectiles') =
                       Cells(projectiles) \ {events'[k].to : k \in shots}
                 /\ Len(projectiles') = Len(projectiles) - Cardinality(shots)
                 /\ score' = score + Cardinality(shots)
                 /\ Len(asteroids') = Len(asteroids)]_vars

\* a projectile below an asteroid was shot while another one stayed in flight
C18_Witness ==
    /\ op = "advance_asteroids"
    /\ \E k \in EventsOf("shot") : events[k].to = events[k].from - 1
    /\ Len(projectiles) > 0

----------------------------------------------------------------------------
(* C19 *)

\* an entry of the history that is about a projectile
IsProjectileEvent(e) == e.kind \in {"off_top", "hit", "flew"}

\* C19: one advance_projectiles call processes every projectile in flight at
\* its start exactly once, in index order. A projectile in row 15 leaves; one
\* with an asteroid in the cell above it leaves, and that asteroid is
\* destroyed, the score rises by 1 and one asteroid is regenerated; every
\* other one ends one row higher in its column. The survivors keep their
\* order.
C19_EachProjectileOnce ==
    [][(op' = "advance_projectiles")
          => LET processed == SelectSeq(events', IsProjectileEvent)
                 hits == {k \in 1..Len(events') : events'[k].kind = "hit"}
             IN  /\ Len(processed) = Len(projectiles)
                 /\ \A i \in 1..Len(processed) : processed[i].from = projectiles[i]
                 /\ \A k \in 1..Len(events') :
                       LET e == events'[k]
                           asteroidAbove ==
                               \/ (e.from + 1) \in Cells(asteroids)
                               \/ \E j \in 1..(k - 1) :
                                     /\ events'[j].kind = "regen"
                                     /\ events'[j].to = e.from + 1
                       IN  IsProjectileEvent(e)
                             => /\ e.kind = "off_top"
                                    <=> GET_Y_POSITION(e.from) = TOP_ROW
                                /\ e.kind = "hit"
                                    <=> /\ GET_Y_POSITION(e.from) # TOP_ROW
                                        /\ asteroidAbove
                                /\ e.kind = "hit"
                                    => /\ e.to = e.from + 1
                                       /\ k < Len(events')
                                       /\ events'[k + 1].kind = "regen"
                                /\ e.kind = "flew" => e.to = e.from + 1
                 /\ projectiles' =
                       LET flown == SelectSeq(processed, LAMBDA e : e.kind = "flew")
                       IN  [i \in 1..Len(flown) |-> flown[i].to]
                 /\ score' = score + Cardinality(hits)
                 /\ Len(asteroids') = Len(asteroids)
                 /\ Cells(asteroids) \ Cells(asteroids')
                       \subseteq {events'[k].to : k \in hits}]_vars

\* the first projectile left the bag and the one that took its slot was then
\* moved
C19_Witness ==
    /\ op = "advance_projectiles"
    /\ Len(events) >= 2
    /\ events[1].kind = "off_top"
    /\ events[Len(events)].kind = "flew"
    /\ Len(projectiles) = 1

----------------------------------------------------------------------------
(* C20 *)

\* C20: a trigger of the alarm, also while it is active, puts the sequence
\* at step 1 and restarts its timer: the first tone (500 Hz) is played no
\* earlier than the delay of step 1 after the last trigger.
C20_FirstToneAfterDelay ==
    [][/\ (\E k \in 1..Len(events') : events'[k].kind \in {"rammed", "base_hit"})
             => (base_hit_sound' = 1 /\ basehit_sequence' = 1)
       /\ tone' = 500 => clock' - trigger_time' >= basehit_delay(1)]_vars

----------------------------------------------------------------------------
(* C21 *)

\* the alarm is idle
AlarmIdle == base_hit_sound = 0

\* the clock of the model has stopped
ClockStopped == clock + TickMs > MaxTime

\* the step is a call that raised the alarm: a ram or a base hit, or the
\* start of handle_game_over
AlarmRaised ==
    /\ clock' = clock
    /\ \/ \E k \in 1..Len(events') : events'[k].kind \in {"rammed", "base_hit"}
       \/ op' = "handle_game_over"

\* the step is a call of handle_basehit_sound
AlarmServiced == clock' = clock /\ op' = "handle_basehit_sound"

\* C21: the alarm goes Idle, step 1, step 2, step 3, Idle. A service of the
\* active alarm advances it by one step exactly when the delay of its step
\* has passed since basehit_time, and then plays the tone of that step (500,
\* 350, 200 Hz for the steps 1, 2, 3) or, with audio off, none; after step 3
\* the alarm is idle; idle, it plays nothing and stays idle until it is
\* raised again; and serviced while time advances it does get idle.
C21_AlarmStateMachine ==
    /\ [](~AlarmIdle => basehit_sequence \in 1..3)
    /\ [][/\ AlarmServiced
                => /\ ~AlarmIdle
                   /\ IF clock - basehit_time >= basehit_delay(basehit_sequence)
                      THEN /\ basehit_sequence' = basehit_sequence + 1
                           /\ basehit_time' = clock
                           /\ tone' \in {0, basehit_tone(basehit_sequence)}
                      ELSE /\ basehit_sequence' = basehit_sequence
                           /\ basehit_time' = basehit_time
                           /\ tone' = 0
                   /\ base_hit_sound' = 0 <=> basehit_sequence' = 4
          /\ ~AlarmServiced => tone' = 0
          /\ (AlarmIdle /\ ~AlarmRaised) => base_hit_sound' = 0
          /\ (~AlarmIdle /\ ~AlarmServiced /\ ~AlarmRaised /\ op' # "new_game")
                => (base_hit_sound' = base_hit_sound
                      /\ basehit_sequence' = basehit_sequence)]_vars
    /\ (~AlarmIdle ~> (AlarmIdle \/ ClockStopped))

\* the alarm has played its third tone and gone idle, the clock still running
C21_Witness ==
    /\ op = "handle_basehit_sound"
    /\ AlarmIdle
    /\ basehit_sequence = 4
    /\ tone = 200
    /\ ~ClockStopped

----------------------------------------------------------------------------
(* C22 *)

\* the explosion animation is active
AnimationActive == asteroid_animation_on # 0

\* the step is an engine call that asked for an animation: it destroyed an
\* asteroid with a projectile
AnimationRequested ==
    /\ clock' = clock
    /\ op' \in {"fire_projectile", "advance_asteroids", "advance_projectiles"}
    /\ score' > score

\* the step is a call of handle_asteroid_animation
AnimationServiced == clock' = clock /\ op' = "handle_asteroid_animation"

----------------------------------------------------------------------------
(* C23 *)

\* the step is the input block of one pass of play_game
Polls == pc = "input" /\ pc' = "asteroids"

\* what a button leads to
ButtonCall(b) ==
    CASE b = 3 -> "move_left"
      [] b = 2 -> "fire_projectile"
      [] b = 0 -> "move_right"
      [] OTHER -> "none"

\* what the last byte of a cursor key leads to
CursorCall(c) ==
    CASE c = "D" -> "move_left"
      [] c = "C" -> "move_right"
      [] c = "A" -> "fire_projectile"
      [] OTHER -> "none"

\* what an ordinary character leads to
KeyCall(c) ==
    CASE c \in {"L", "l"} -> "move_left"
      [] c \in {"R", "r"} -> "move_right"
      [] c = " " -> "fire_projectile"
      [] c \in {"p", "P"} -> "pause"
      [] OTHER -> "none"

\* C23: a pass that finds a button pushed dispatches the button and reads
\* no byte, whether one is pending or not: the bytes to come and the
\* progress of the escape sequence stay. A pass without a button reads the
\* pending byte, if there is one. ESC and then [ are taken without any
\* dispatch; the byte after them is dispatched as a cursor key (D left, C
\* right, A fire) and ends the sequence; a byte other than [ after ESC ends
\* the sequence and is dispatched as an ordinary character. A pass that
\* dispatches nothing leaves the game as it is.
C23_InputPolling ==
    [][Polls =>
         LET into == characters_into_escape_sequence
             into_after == characters_into_escape_sequence'
         IN  /\ button' # NO_BUTTON_PUSHED
                   => /\ serial' = serial
                      /\ into_after = into
                      /\ pending' >= pending
                      /\ op' = ButtonCall(button')
             /\ (button' = NO_BUTTON_PUSHED /\ pending > 0) => serial' # serial
             /\ (button' = NO_BUTTON_PUSHED /\ serial' = serial)
                   => (op' = "none" /\ into_after = into /\ pending' = 0)
             /\ (button' = NO_BUTTON_PUSHED /\ serial' # serial)
                   => LET byte == Head(serial)
                      IN  /\ op' # "pause" => serial' = Tail(serial)
                          /\ (into = 0 /\ byte = ESCAPE_CHAR)
                                => (into_after = 1 /\ op' = "none")
                          /\ (into = 1 /\ byte = "[")
                                => (into_after = 2 /\ op' = "none")
                          /\ into = 2
                                => (into_after = 0 /\ op' = CursorCall(byte))
                          /\ (into = 1 /\ byte # "[")
                                => (into_after = 0 /\ op' = KeyCall(byte))
                          /\ (into = 0 /\ byte # ESCAPE_CHAR)
                                => (into_after = 0 /\ op' = KeyCall(byte))
             /\ op' \in {"none", "pause"}
                   => UNCHANGED <<basePosition, projectiles, asteroids, lives, score>>
             /\ into_after \in 0..2]_vars

\* a button was dispatched while the last byte of a cursor key was pending:
\* the byte is still to be read and the escape sequence is where it was
C23_Witness ==
    /\ pc = "asteroids"
    /\ button \in {0, 2, 3}
    /\ op = ButtonCall(button)
    /\ characters_into_escape_sequence = 2
    /\ pending > 0
    /\ Len(serial) = 1

----------------------------------------------------------------------------
(* C24 *)

\* the asteroids in the two bottom rows
LowAsteroids == {i \in 1..Len(asteroids) : GET_Y_POSITION(asteroids[i]) <= 1}

\* C24: after initialise and after every engine call no asteroid is in a
\* cell of the footprint of the base, (c-1,0), (c,0), (c+1,0), (c,1) with c
\* the centre of the base.
C24_FootprintClear == NoAsteroidInFootprint

\* the base moved into an asteroid, or an asteroid came down on the base,
\* while another asteroid is in the bottom rows beside the base
C24_Witness ==
    /\ EventsOf("rammed") \cup EventsOf("base_hit") # {}
    /\ LowAsteroids # {}

----------------------------------------------------------------------------
(* C25 *)

\* C25: asteroids and projectiles do not pass through each other: after
\* initialise and after every engine call, in no column is an asteroid in a
\* row below a projectile, and a cell that holds both an asteroid and a
\* projectile is in row 15.
C25_NoPassThrough ==
    /\ NoAsteroidUnderProjectile
    /\ \A cell \in Cells(asteroids) \cap Cells(projectiles) :
          GET_Y_POSITION(cell) = TOP_ROW

\* an asteroid was regenerated into the cell of a projectile, in flight in
\* the top row
C25_Witness ==
    /\ Cells(asteroids) \cap Cells(projectiles) # {}
    /\ EventsOf("regen") # {}

----------------------------------------------------------------------------
(* C26 *)

\* C26: respawning ends: whenever regen_asteroid or the wrap-around of
\* advance_asteroids looks for a free column in row 15, one of the 8 cells
\* of that row holds no asteroid, so no engine call stays in the loop.
C26_RespawnEnds == EventsOf("spins") = {}

----------------------------------------------------------------------------
(* C27 *)

\* C27: every game starts with the alarm and the explosion animation idle,
\* the first game and every game that follows a game over, whenever the
\* button was pushed: right after new_game both are inactive, and a game
\* plays no alarm tone before its first base collision, which costs a life.
C27_StartsIdle ==
    /\ op = "new_game" => (AlarmIdle /\ ~AnimationActive)
    /\ tone # 0 => lives < INITIAL_LIVES

====
